---- MODULE Spec2Model ----
(***************************************************************************)
(* Data-access core of musictool: the five-table schema (database.py),     *)
(* the transaction scope (config.py) and the repository layer              *)
(* (repositories.py), over the default SQLite store.                       *)
(*                                                                         *)
(* db is the committed content of the store, tx the content seen by the    *)
(* session of the open scope (committed rows plus everything flushed and   *)
(* not yet committed).  Every repository mutation flushes, so the session  *)
(* holds no unflushed work between calls.                                  *)
(***************************************************************************)
EXTENDS Integers, Sequences, FiniteSets, TLC

VARIABLES db, tx, pc, sess, exc, scope, clock, ret, cfg

vars == <<db, tx, pc, sess, exc, scope, clock, ret, cfg>>

----------------------------------------------------------------------------
(* Bounds *)

\* largest identifier a create may assign, per table
MaxId == 2
\* largest value of the utcnow() clock
MaxClock == 1
\* largest number of rows in the session's view, all tables together
MaxRows == 2
\* the same for the specification of the cascades
MaxFamily == 4
\* largest identifier, and number of rows, under the specification of the
\* scopes
MaxScopeId == 1

\* largest number of rows under the specification of the track queries
MaxQueryRows == 3
\* largest number of import batches under the specification of the batch
\* queries
MaxBatches == 3

\* rows one unit of work creates
MaxUnitRows == 5
\* DatabaseConfig instances built by initialize_database
MaxInstances == 2

----------------------------------------------------------------------------
(* Values *)

\* Python None / SQL NULL in a nullable column; Some(v) is a present value
None == <<>>
Some(v) == <<v>>

NoExc == "none"
\* failures that derive from Exception, and one that does not
ExceptionKinds ==
    {"IntegrityError", "TypeError", "AttributeError", "PendingRollbackError", "ValueError"}
BaseExceptionKinds == {"KeyboardInterrupt"}

Tables == {"tracks", "digital_tracks", "releases", "physical_tracks", "import_batches"}

\* columns of each table
Columns(t) ==
    CASE t = "tracks" ->
           {"id", "artist", "title", "album", "label", "year", "duration_ms",
            "created_at", "updated_at"}
      [] t = "digital_tracks" ->
           {"id", "track_id", "file_path", "format", "bitrate", "source_file",
            "created_at"}
      [] t = "releases" ->
           {"id", "discogs_id", "title", "artist", "label", "year", "format_type",
            "created_at"}
      [] t = "physical_tracks" ->
           {"id", "track_id", "release_id", "position", "created_at"}
      [] t = "import_batches" ->
           {"id", "source_type", "source_file", "records_imported", "status",
            "error_message", "created_at"}

\* columns declared nullable=True; they hold None or Some(v)
Nullable(t) ==
    CASE t = "tracks" -> {"album", "label", "year", "duration_ms"}
      [] t = "digital_tracks" -> {"bitrate"}
      [] t = "releases" -> {"discogs_id", "label", "year"}
      [] t = "physical_tracks" -> {"position"}
      [] t = "import_batches" -> {"source_file", "error_message"}

\* columns filled by the schema when the caller supplies no value
TimeColumns == {"created_at", "updated_at"}
HasDefault(t, c) ==
    \/ c = "id"
    \/ c \in TimeColumns
    \/ c \in Nullable(t)
    \/ t = "import_batches" /\ c \in {"records_imported", "status"}

ColumnDefault(t, c, id, now) ==
    CASE c = "id" -> id
      [] c \in TimeColumns -> now
      [] t = "import_batches" /\ c = "records_imported" -> 0
      [] t = "import_batches" /\ c = "status" -> "pending"
      [] OTHER -> None

\* names for which hasattr(obj, name) holds besides the columns:
\* relationships and read-only properties of the mapped classes
ReadOnlyProperties(t) ==
    IF t = "tracks" THEN {"has_digital_format", "has_physical_format"} ELSE {}

Relationships(t) ==
    CASE t = "tracks" -> {"digital_tracks", "physical_tracks"}
      [] t = "digital_tracks" -> {"track"}
      [] t = "releases" -> {"physical_tracks"}
      [] t = "physical_tracks" -> {"track", "release"}
      [] t = "import_batches" -> {}

HasAttr(t, name) ==
    name \in Columns(t) \cup Relationships(t) \cup ReadOnlyProperties(t)

----------------------------------------------------------------------------
(* Store *)

EmptyStore == [t \in Tables |-> {}]

Ids(rows) == {r.id : r \in rows}

SetMax(S) == CHOOSE m \in S : \A x \in S : x <= m

\* INTEGER PRIMARY KEY without AUTOINCREMENT: one more than the largest
\* identifier now in the table
NewId(rows) == IF rows = {} THEN 1 ELSE SetMax(Ids(rows)) + 1

Find(rows, id) == {r \in rows : r.id = id}

\* the default store does not enforce FOREIGN KEY clauses: the engine is
\* created without enabling them on its connections
ForeignKeysEnforced == FALSE

ForeignKeysOk(store) ==
    /\ \A d \in store["digital_tracks"] : d.track_id \in Ids(store["tracks"])
    /\ \A p \in store["physical_tracks"] :
          /\ p.track_id \in Ids(store["tracks"])
          /\ p.release_id \in Ids(store["releases"])

\* a discogs_id column declared without unique=True
DiscogsNotChecked(rows) == TRUE

\* unique=True on releases.discogs_id; NULLs never collide
DiscogsUnique(rows) ==
    \A r1, r2 \in rows :
        (r1.discogs_id # None /\ r1.discogs_id = r2.discogs_id) => r1.id = r2.id

PrimaryKeysUnique(store) ==
    \A t \in Tables : \A r1, r2 \in store[t] : r1.id = r2.id => r1 = r2

ConstraintsOk(store) ==
    /\ PrimaryKeysUnique(store)
    /\ DiscogsUnique(store["releases"])
    /\ ForeignKeysEnforced => ForeignKeysOk(store)

----------------------------------------------------------------------------
(* Inputs of the repository calls *)

\* identifiers handed as track_id / release_id; the rows they name may or
\* may not exist
TrackIdRefs == {1, 2}
ReleaseIdRefs == {1, 2}

\* keyword arguments handed to create, per table; text is a tuple of
\* characters
CreateInputs(t) ==
    CASE t = "tracks" ->
           { [artist |-> <<"A", "b">>, title |-> <<"S">>, year |-> Some(2020)],
             [artist |-> <<"A", "b">>],
             [artist |-> <<"A", "b">>, title |-> <<"S">>, genre |-> <<"x">>] }
      [] t = "digital_tracks" ->
           { [track_id |-> k, file_path |-> "/m/a.mp3", format |-> "mp3",
              source_file |-> "c.nml"] : k \in TrackIdRefs }
      [] t = "releases" ->
           { [title |-> <<"R">>, artist |-> <<"A", "b">>, format_type |-> "vinyl",
              discogs_id |-> Some(7)],
             [title |-> <<"R">>, artist |-> <<"A", "b">>, format_type |-> "vinyl"] }
      [] t = "physical_tracks" ->
           { [track_id |-> k, release_id |-> r, position |-> Some("A1")] :
               k \in TrackIdRefs, r \in ReleaseIdRefs }
      [] t = "import_batches" ->
           { [source_type |-> "traktor_nml"] }

\* keyword arguments handed to update, per table
UpdateInputs(t) ==
    CASE t = "tracks" ->
           { [year |-> Some(2025)],
             [year |-> Some(2025), rating |-> 5],
             [rating |-> 5],
             [has_digital_format |-> TRUE] }
      [] t = "digital_tracks" -> { [track_id |-> k] : k \in TrackIdRefs }
      [] t = "releases" -> { [discogs_id |-> Some(7)], [discogs_id |-> None] }
      [] t = "physical_tracks" -> { [position |-> Some("A1")] }
      [] t = "import_batches" -> { [status |-> "success", records_imported |-> 100] }

----------------------------------------------------------------------------
(* Rows *)

\* an INSERT that stores NULL in every nullable column
CreateRowDropsOptional(t, kw, id, now) ==
    [c \in Columns(t) |->
        IF c \in DOMAIN kw /\ c \notin Nullable(t) THEN kw[c]
        ELSE ColumnDefault(t, c, id, now)]

\* Model(**kwargs) followed by the INSERT of the flush: supplied columns
\* keep the supplied value, the others take the schema default
CreateRow(t, kw, id, now) ==
    [c \in Columns(t) |->
        IF c \in DOMAIN kw THEN kw[c] ELSE ColumnDefault(t, c, id, now)]

\* nullable=False columns that would be NULL in the INSERT
MissingColumns(t, kw) ==
    {c \in Columns(t) : c \notin DOMAIN kw /\ ~HasDefault(t, c)}

\* the declarative constructor rejects a keyword that is no attribute of
\* the class
UnknownKeywords(t, kw) == {k \in DOMAIN kw : ~HasAttr(t, k)}

\* the setattr loop of update: a supplied name is stored when hasattr holds
MergeFields(t, row, kw) ==
    [c \in Columns(t) |->
        IF c \in DOMAIN kw /\ HasAttr(t, c) THEN kw[c] ELSE row[c]]

\* onupdate=datetime.utcnow: the UPDATE emitted for a changed Track row
\* sets updated_at unless the caller set it
TouchUpdated(t, old, new, kw, now) ==
    IF t = "tracks" /\ new # old /\ "updated_at" \notin DOMAIN kw
    THEN [new EXCEPT !["updated_at"] = now]
    ELSE new

UpdatedRow(t, row, kw, now) ==
    TouchUpdated(t, row, MergeFields(t, row, kw), kw, now)

\* cascades that forget the physical tracks of a deleted track
CascadeOnlyDigital(store, t, id) ==
    [u \in Tables |->
        CASE u = t -> Find(store[u], id)
          [] t = "tracks" /\ u = "digital_tracks" ->
               {r \in store[u] : r.track_id = id}
          [] t = "releases" /\ u = "physical_tracks" ->
               {r \in store[u] : r.release_id = id}
          [] OTHER -> {}]

\* cascades of a deleted release that also take the tracks placed on it
CascadeTakesTracks(store, t, id) ==
    [u \in Tables |->
        CASE u = t -> Find(store[u], id)
          [] t = "tracks" /\ u \in {"digital_tracks", "physical_tracks"} ->
               {r \in store[u] : r.track_id = id}
          [] t = "releases" /\ u = "physical_tracks" ->
               {r \in store[u] : r.release_id = id}
          [] t = "releases" /\ u = "tracks" ->
               {r \in store[u] :
                   \E p \in store["physical_tracks"] :
                       p.release_id = id /\ p.track_id = r.id}
          [] OTHER -> {}]

\* rows removed together with row id of table t by the relationship
\* cascades (cascade="all, delete-orphan")
CascadeRows(store, t, id) ==
    [u \in Tables |->
        CASE u = t -> Find(store[u], id)
          [] t = "tracks" /\ u \in {"digital_tracks", "physical_tracks"} ->
               {r \in store[u] : r.track_id = id}
          [] t = "releases" /\ u = "physical_tracks" ->
               {r \in store[u] : r.release_id = id}
          [] OTHER -> {}]

\* a delete that removes the cascaded children and leaves the row itself
DeleteRowsOnlyChildren(store, t, id) ==
    [u \in Tables |-> IF u = t THEN store[u] ELSE store[u] \ CascadeRows(store, t, id)[u]]

DeleteRows(store, t, id) ==
    [u \in Tables |-> store[u] \ CascadeRows(store, t, id)[u]]

\* an INSERT that replaces the content of the table
InsertRowReplacing(store, t, row) == [store EXCEPT ![t] = {row}]

InsertRow(store, t, row) == [store EXCEPT ![t] = @ \cup {row}]

ReplaceRow(store, t, old, new) == [store EXCEPT ![t] = (@ \ {old}) \cup {new}]

\* a lookup without the filter on the identifier: the first row of the table
GetByIdAnyRow(view, t, id) ==
    IF view[t] = {} THEN None
    ELSE Some(CHOOSE r \in view[t] : \A x \in view[t] : r.id <= x.id)

\* query(Model).filter_by(id=id).first() on the session's view
GetByIdResult(view, t, id) ==
    IF Find(view[t], id) = {} THEN None ELSE Some(CHOOSE r \in Find(view[t], id) : TRUE)

TotalRows(store) ==
    Cardinality(store["tracks"]) + Cardinality(store["digital_tracks"])
    + Cardinality(store["releases"]) + Cardinality(store["physical_tracks"])
    + Cardinality(store["import_batches"])

----------------------------------------------------------------------------
(* Queries: what each query returns on a view of the store.  A result is   *)
(* the sequence of the identifiers of the rows returned.                   *)

\* Python truthiness of an optional int and of an optional text, as tested
\* by "if limit:", "if year:", "if artist:"
TruthyInt(x) == x # None /\ x[1] # 0
TruthyText(x) == x # None /\ x[1] # <<>>

RECURSIVE Ascending(_)
\* the identifiers of S in increasing order: the order of a table scan
Ascending(S) ==
    IF S = {} THEN <<>>
    ELSE LET m == CHOOSE x \in S : \A y \in S : x <= y
         IN  <<m>> \o Ascending(S \ {m})

\* every order in which the elements of S can be returned
Orderings(S) ==
    {q \in [1..Cardinality(S) -> S] : \A i, j \in DOMAIN q : q[i] = q[j] => i = j}

\* OFFSET n and LIMIT n of a result
OffsetRows(q, n) == IF n >= Len(q) THEN <<>> ELSE SubSeq(q, n + 1, Len(q))
LimitRows(q, n) == IF n >= Len(q) THEN q ELSE SubSeq(q, 1, n)

\* "if limit: query = query.limit(limit)"
LimitIfTruthy(q, limit) == IF TruthyInt(limit) THEN LimitRows(q, limit[1]) ELSE q

RECURSIVE Unique(_)
\* Query.all() on a single mapped class returns each object once, at its
\* first position
Unique(q) ==
    IF q = <<>> THEN <<>>
    ELSE LET r == Unique(SubSeq(q, 1, Len(q) - 1))
             x == q[Len(q)]
         IN  IF \E i \in DOMAIN r : r[i] = x THEN r ELSE Append(r, x)

\* query(Model).offset(offset), limited "if limit", .all()
GetAllResult(view, t, limit, offset) ==
    LimitIfTruthy(OffsetRows(Ascending(Ids(view[t])), offset), limit)

\* query(Model).count()
CountResult(view, t) == Cardinality(view[t])

\* lower() of a character and of a text, over the characters in use
Lower(c) ==
    CASE c = "A" -> "a"
      [] c = "B" -> "b"
      [] c = "L" -> "l"
      [] c = "S" -> "s"
      [] OTHER -> c

LowerText(s) == [i \in 1..Len(s) |-> Lower(s[i])]

RECURSIVE LikeMatch(_, _)
\* the LIKE operator: % stands for any run of characters, _ for any one
LikeMatch(p, s) ==
    IF p = <<>> THEN s = <<>>
    ELSE IF Head(p) = "%"
    THEN LikeMatch(Tail(p), s) \/ (s # <<>> /\ LikeMatch(p, Tail(s)))
    ELSE /\ s # <<>>
         /\ Head(p) = "_" \/ Head(p) = Head(s)
         /\ LikeMatch(Tail(p), Tail(s))

\* Column.ilike(f"%{text}%"): lower(column) LIKE lower(pattern), never true
\* of a NULL column; value is None or Some(text)
ILike(value, text) ==
    /\ value # None
    /\ LikeMatch(<<"%">> \o LowerText(text) \o <<"%">>, LowerText(value[1]))

\* the value of column c of a row as an optional text
OptionalText(t, r, c) == IF c \in Nullable(t) THEN r[c] ELSE Some(r[c])

\* search_by_artist / search_by_title / search_by_album: ilike on one
\* column, limited "if limit"
SearchByResult(view, t, c, text, limit) ==
    LimitIfTruthy(Ascending(Ids({r \in view[t] : ILike(OptionalText(t, r, c), text)})),
                  limit)

\* the filters search_tracks adds for its arguments a
SearchMatches(view, a) ==
    {r \in view["tracks"] :
        /\ TruthyText(a.artist) => ILike(Some(r.artist), a.artist[1])
        /\ TruthyText(a.title) => ILike(Some(r.title), a.title[1])
        /\ TruthyText(a.album) => ILike(r.album, a.album[1])
        /\ TruthyInt(a.year) => r.year = a.year}

SearchTracksResult(view, a) ==
    LimitIfTruthy(Ascending(Ids(SearchMatches(view, a))), a.limit)

\* the rows of the join handed back as they are, one per child
WithFormatsJoinRows(view, child, limit) ==
    LET rows == {<<c.track_id, c.id>> :
                    c \in {x \in view[child] : x.track_id \in Ids(view["tracks"])}}
    IN  {LimitIfTruthy([i \in DOMAIN q |-> q[i][1]], limit) : q \in Orderings(rows)}

\* the results get_with_digital_formats / get_with_physical_formats may
\* return: the rows of the join in any order, limited, each track once
WithFormatsResults(view, child, limit) ==
    LET rows == {<<c.track_id, c.id>> :
                    c \in {x \in view[child] : x.track_id \in Ids(view["tracks"])}}
    IN  {Unique(LimitIfTruthy([i \in DOMAIN q |-> q[i][1]], limit)) :
            q \in Orderings(rows)}

\* children of a track in an outer join: their identifiers, or one NULL
\* (written 0) when there is none
OuterChildren(view, child, id) ==
    LET ids == {c.id : c \in {x \in view[child] : x.track_id = id}}
    IN  IF ids = {} THEN {0} ELSE ids

\* the outer joins filtered on DigitalTrack.id IS NULL alone
OrphanRowsDigitalOnly(view) ==
    {row \in UNION {{r.id} \X OuterChildren(view, "digital_tracks", r.id)
                           \X OuterChildren(view, "physical_tracks", r.id) :
                       r \in view["tracks"]} :
        row[2] = 0}

\* rows of query(Track).outerjoin(DigitalTrack).outerjoin(PhysicalTrack)
\* kept by the two IS NULL filters
OrphanRows(view) ==
    {row \in UNION {{r.id} \X OuterChildren(view, "digital_tracks", r.id)
                           \X OuterChildren(view, "physical_tracks", r.id) :
                       r \in view["tracks"]} :
        row[2] = 0 /\ row[3] = 0}

OrphanedTracksResults(view, limit) ==
    {Unique(LimitIfTruthy([i \in DOMAIN q |-> q[i][1]], limit)) :
        q \in Orderings(OrphanRows(view))}

\* the orders of an ascending ORDER BY created_at
OldestFirst(rows) ==
    {q \in Orderings(Ids(rows)) :
        \A i, j \in DOMAIN q :
            i < j => \A a \in Find(rows, q[i]), b \in Find(rows, q[j]) :
                        a.created_at <= b.created_at}

\* every order ORDER BY created_at DESC allows for the identifiers of rows
NewestFirst(rows) ==
    {q \in Orderings(Ids(rows)) :
        \A i, j \in DOMAIN q :
            i < j => \A a \in Find(rows, q[i]), b \in Find(rows, q[j]) :
                        a.created_at >= b.created_at}

\* the matching batches without the ORDER BY, in any order
FindByUnordered(view, c, v) ==
    Orderings(Ids({b \in view["import_batches"] : b[c] = v}))

\* find_by_source_type / find_by_status: the batches whose column c is v
FindByResults(view, c, v) ==
    NewestFirst({b \in view["import_batches"] : b[c] = v})

\* get_latest_successful_import: .first() of the ordered rows
LatestSuccessfulResults(view, source) ==
    {LimitRows(q, 1) :
        q \in NewestFirst({b \in view["import_batches"] :
                              b.source_type = source /\ b.status = "success"})}

----------------------------------------------------------------------------
(* Session *)

\* a commit that leaves the store as it was
SessionCommitDrops(committed, view) == committed

\* a commit that writes the tracks and nothing else
SessionCommitTracksOnly(committed, view) ==
    [committed EXCEPT !["tracks"] = view["tracks"]]

\* Session.commit: the flushed work becomes the committed content
SessionCommit(committed, view) == view

\* a rollback that keeps the flushed work
SessionRollbackKeeps(committed, view) == view

\* a rollback that empties the store
SessionRollbackEmpties(committed, view) == EmptyStore

\* Session.rollback, and the transaction rollback of a failed flush or of
\* Session.close: the flushed work is dropped
SessionRollback(committed, view) == committed

\* record of the last repository call of the open scope: the operation,
\* whether the row it looked up or made exists (found), how many child rows
\* a delete removed by cascade, and the failure it raised.  The table, the
\* identifier and the keyword arguments are recorded for a call that wrote
\* a row, the table for a call that raised; rows is the result of a query
\* that returns a list, and kw then holds its arguments.
Ret(op, t, id, kw) ==
    [op |-> op, table |-> t, id |-> id, kw |-> kw, found |-> FALSE,
     cascaded |-> 0, raised |-> NoExc, rows |-> <<>>]

NoKw == [k \in {} |-> None]

NoRet == Ret("none", "none", 0, NoKw)

NewScope(store) ==
    [pre |-> store, flushed |-> FALSE, midCommit |-> FALSE, bodyEnd |-> "none",
     commits |-> 0, rollbacks |-> 0, closed |-> FALSE, raised |-> NoExc]

InBody == pc = "body" /\ exc = NoExc

\* a call that raises without touching the transaction
Raises(kind, r) ==
    /\ exc' = kind
    /\ ret' = [r EXCEPT !.raised = kind]
    /\ UNCHANGED <<db, tx, pc, sess, scope, clock, cfg>>

\* a flush that fails: the session rolls its transaction back and stays
\* unusable until rollback() is called
FlushFails(r) ==
    /\ exc' = "IntegrityError"
    /\ ret' = [r EXCEPT !.raised = "IntegrityError"]
    /\ tx' = SessionRollback(db, tx)
    /\ sess' = "inactive"
    /\ UNCHANGED <<db, pc, scope, clock, cfg>>

----------------------------------------------------------------------------
(* Configuration: DatabaseConfig and the global handle db_config *)

\* DEFAULT_DATABASE_URL
DefaultUrl == "sqlite:///musictool.db"

\* a value of the DATABASE_URL environment variable
EnvUrl == "sqlite:///env_test.db"

\* connection strings handed to initialize_database: a file of its own and
\* the in-memory store, which is private to the engine that opens it
CustomUrl == "sqlite:///test.db"

MemoryUrl == "sqlite:///:memory:"

\* the database_url argument: absent, empty, or a connection string
Overrides == {None, Some(""), Some(CustomUrl), Some(MemoryUrl)}

\* the environment: DATABASE_URL unset, or set
Environments == {None, Some(EnvUrl)}

\* truth value of an Optional[str]
TruthyUrl(o) == o # None /\ o[1] # ""

\* database_url or os.getenv("DATABASE_URL", DEFAULT_DATABASE_URL)
ResolveUrl(override, env) ==
    IF TruthyUrl(override) THEN override[1]
    ELSE IF env # None THEN env[1]
    ELSE DefaultUrl

\* the stores: one per file, one per instance on the in-memory store
StoreKeys ==
    {<<u, 0>> : u \in {DefaultUrl, EnvUrl, CustomUrl}}
    \cup {<<MemoryUrl, i>> : i \in 1..MaxInstances}

\* the store behind instance i of connection string url
StoreKey(url, i) == <<url, IF url = MemoryUrl THEN i ELSE 0>>

\* record of the last call on the configuration: the operation, its
\* argument, the failure it raised, the instance it returned or used, and
\* whether it opened a session
Last(op, arg, raised, inst, opened) ==
    [op |-> op, arg |-> arg, raised |-> raised, inst |-> inst, opened |-> opened]

\* the configuration: handle is db_config (0 for None, else the number of
\* the instance), env the environment, insts the connection string of
\* every instance built, cur the store whose committed content db holds,
\* stores the committed content of the other stores, schema the stores
\* whose tables exist
NoConfig ==
    [handle |-> 0, env |-> None, insts |-> <<>>, cur |-> <<DefaultUrl, 0>>,
     stores |-> [k \in StoreKeys |-> EmptyStore], schema |-> {<<DefaultUrl, 0>>},
     last |-> Last("none", None, NoExc, 0, FALSE)]

\* a create_all that makes the tables afresh
MaterializeSchemaAfresh(exists, store) == EmptyStore

\* Base.metadata.create_all: tables that exist are left as they are, with
\* their rows; the others are made, empty
MaterializeSchema(exists, store) == IF exists THEN store ELSE EmptyStore

\* a lookup that falls back to the instance built last
GetDatabaseConfigLatest(c) ==
    IF c.handle = 0 /\ c.insts = <<>>
    THEN [raised |-> "RuntimeError", inst |-> 0]
    ELSE [raised |-> NoExc, inst |-> IF c.handle = 0 THEN Len(c.insts) ELSE c.handle]

\* get_database_config: the handle, or RuntimeError when it is None
GetDatabaseConfigResult(c) ==
    IF c.handle = 0
    THEN [raised |-> "RuntimeError", inst |-> 0]
    ELSE [raised |-> NoExc, inst |-> c.handle]

----------------------------------------------------------------------------
(* Transaction scope: DatabaseConfig.session_scope / db_session_scope *)

Init ==
    /\ db = EmptyStore
    /\ tx = EmptyStore
    /\ pc = "idle"
    /\ sess = "none"
    /\ exc = NoExc
    /\ scope = NewScope(EmptyStore)
    /\ clock = 0
    /\ ret = NoRet
    /\ cfg = NoConfig

\* session = self.get_session(); the body starts at the yield
OpenScope ==
    /\ pc = "idle"
    /\ pc' = "body"
    /\ sess' = "active"
    /\ tx' = db
    /\ exc' = NoExc
    /\ scope' = NewScope(db)
    /\ ret' = NoRet
    /\ UNCHANGED <<db, clock, cfg>>

\* what the scope does once the body has returned: commit, and on a
\* failing commit the except branch; close in both cases
ExitAfterReturn(s, state) ==
    IF state = "active"
    THEN [s EXCEPT !.bodyEnd = "return", !.commits = @ + 1, !.closed = TRUE]
    ELSE [s EXCEPT !.bodyEnd = "return", !.commits = @ + 1, !.rollbacks = @ + 1,
                   !.raised = "PendingRollbackError", !.closed = TRUE]

\* the body returns normally
ScopeReturn ==
    /\ InBody
    /\ scope' = ExitAfterReturn(scope, sess)
    /\ db' = IF sess = "active" THEN SessionCommit(db, tx) ELSE SessionRollback(db, tx)
    /\ tx' = db'
    /\ pc' = "idle"
    /\ sess' = "none"
    /\ ret' = NoRet
    /\ UNCHANGED <<exc, clock, cfg>>

\* a scope that swallows the failure
ExitSwallows(s, kind) ==
    [s EXCEPT !.bodyEnd = "raise",
              !.rollbacks = IF kind \in ExceptionKinds THEN @ + 1 ELSE @,
              !.closed = TRUE]

\* what the scope does with a failure leaving the body: except Exception
\* rolls back and re-raises, anything else passes through; close in both cases
ExitAfterRaise(s, kind) ==
    [s EXCEPT !.bodyEnd = "raise",
              !.rollbacks = IF kind \in ExceptionKinds THEN @ + 1 ELSE @,
              !.raised = kind,
              !.closed = TRUE]

\* a failure leaves the body
ScopeRaise ==
    /\ pc = "body"
    /\ exc # NoExc
    /\ scope' = ExitAfterRaise(scope, exc)
    /\ db' = SessionRollback(db, tx)
    /\ tx' = db'
    /\ pc' = "idle"
    /\ sess' = "none"
    /\ exc' = NoExc
    /\ ret' = NoRet
    /\ UNCHANGED <<clock, cfg>>

\* the body raises a failure of its own
BodyRaise(kind) ==
    /\ InBody
    /\ exc' = kind
    /\ UNCHANGED <<db, tx, pc, sess, scope, clock, ret, cfg>>

\* the body catches the failure of a call and goes on
BodyCatch ==
    /\ pc = "body"
    /\ exc # NoExc
    /\ exc' = NoExc
    /\ ret' = NoRet
    /\ UNCHANGED <<db, tx, pc, sess, scope, clock, cfg>>

\* datetime.utcnow() advances between calls
Tick ==
    /\ clock < MaxClock
    /\ clock' = clock + 1
    /\ UNCHANGED <<db, tx, pc, sess, exc, scope, ret, cfg>>

----------------------------------------------------------------------------
(* Repositories: BaseRepository, inherited by the five repositories *)

\* create(**kwargs): construct, add, flush; maxid and cap bound the
\* identifiers and the rows of the view
Create(t, kw, maxid, cap) ==
    LET r == Ret("create", t, 0, NoKw)
        id == NewId(tx[t])
        row == CreateRow(t, kw, id, clock)
        new == InsertRow(tx, t, row)
    IN  /\ InBody
        /\ IF UnknownKeywords(t, kw) # {}
           THEN Raises("TypeError", r)
           ELSE IF DOMAIN kw \cap ReadOnlyProperties(t) # {}
           THEN Raises("AttributeError", r)
           ELSE IF sess = "inactive"
           THEN Raises("PendingRollbackError", r)
           ELSE IF MissingColumns(t, kw) # {}
           THEN FlushFails(r)
           ELSE IF ~ConstraintsOk(new)
           THEN FlushFails(r)
           ELSE /\ id <= maxid
                /\ TotalRows(tx) < cap
                /\ tx' = new
                /\ ret' = [r EXCEPT !.id = id, !.kw = kw, !.found = TRUE]
                /\ scope' = [scope EXCEPT !.flushed = TRUE]
                /\ UNCHANGED <<db, pc, sess, exc, clock, cfg>>

\* get_by_id(id)
GetById(t, id) ==
    LET r == Ret("get_by_id", t, 0, NoKw)
    IN  /\ InBody
        /\ IF sess = "inactive"
           THEN Raises("PendingRollbackError", r)
           ELSE /\ ret' = IF GetByIdResult(tx, t, id) = None
                          THEN Ret("get_by_id", "none", 0, NoKw)
                          ELSE [r EXCEPT !.id = id, !.found = TRUE]
                /\ UNCHANGED <<db, tx, pc, sess, exc, scope, clock, cfg>>

\* update(id, **kwargs): look the row up, setattr every supplied name the
\* object has, flush.  A supplied read-only property comes alone in
\* UpdateInputs, so no other name has been set when its setattr raises.
Update(t, id, kw) ==
    LET r == Ret("update", t, 0, NoKw)
        found == GetByIdResult(tx, t, id)
        old == found[1]
        row == UpdatedRow(t, old, kw, clock)
        new == ReplaceRow(tx, t, old, row)
    IN  /\ InBody
        /\ IF sess = "inactive"
           THEN Raises("PendingRollbackError", r)
           ELSE IF found = None
           THEN /\ ret' = Ret("update", "none", 0, NoKw)
                /\ UNCHANGED <<db, tx, pc, sess, exc, scope, clock, cfg>>
           ELSE IF DOMAIN kw \cap ReadOnlyProperties(t) # {}
           THEN Raises("AttributeError", r)
           ELSE IF ~ConstraintsOk(new)
           THEN FlushFails(r)
           ELSE /\ tx' = new
                /\ ret' = [r EXCEPT !.id = id, !.kw = kw, !.found = TRUE]
                /\ scope' = [scope EXCEPT !.flushed = @ \/ row # old]
                /\ UNCHANGED <<db, pc, sess, exc, clock, cfg>>

\* delete(id): look the row up, session.delete, flush
Delete(t, id) ==
    LET r == Ret("delete", t, 0, NoKw)
        found == GetByIdResult(tx, t, id)
    IN  /\ InBody
        /\ IF sess = "inactive"
           THEN Raises("PendingRollbackError", r)
           ELSE IF found = None
           THEN /\ ret' = Ret("delete", "none", 0, NoKw)
                /\ UNCHANGED <<db, tx, pc, sess, exc, scope, clock, cfg>>
           ELSE /\ tx' = DeleteRows(tx, t, id)
                /\ ret' = [r EXCEPT !.id = id, !.found = TRUE,
                                   !.cascaded = TotalRows(tx) - TotalRows(tx') - 1]
                /\ scope' = [scope EXCEPT !.flushed = TRUE]
                /\ UNCHANGED <<db, pc, sess, exc, clock, cfg>>

----------------------------------------------------------------------------
(* Queries of the repositories *)

\* a query called with arguments a that may return any of results
Query(op, t, a, results) ==
    LET r == Ret(op, t, 0, NoKw)
    IN  /\ InBody
        /\ IF sess = "inactive"
           THEN Raises("PendingRollbackError", r)
           ELSE /\ \E res \in results : ret' = [r EXCEPT !.kw = a, !.rows = res]
                /\ UNCHANGED <<db, tx, pc, sess, exc, scope, clock, cfg>>

\* get_all(limit, offset)
GetAll(t, limit, offset) ==
    Query("get_all", t, [limit |-> limit, offset |-> offset],
          {GetAllResult(tx, t, limit, offset)})

\* count(); the number is returned as the only element of rows
Count(t) == Query("count", t, NoKw, {<<CountResult(tx, t)>>})

\* search_tracks(artist, title, album, year, limit)
SearchTracks(a) == Query("search_tracks", "tracks", a, {SearchTracksResult(tx, a)})

\* search_by_artist(text, limit) of tracks and of releases
SearchByArtist(t, text, limit) ==
    Query("search_by_artist", t, [text |-> text, limit |-> limit],
          {SearchByResult(tx, t, "artist", text, limit)})

\* search_by_title(text, limit) of tracks and of releases
SearchByTitle(t, text, limit) ==
    Query("search_by_title", t, [text |-> text, limit |-> limit],
          {SearchByResult(tx, t, "title", text, limit)})

\* search_by_album(text, limit) of tracks
SearchByAlbum(text, limit) ==
    Query("search_by_album", "tracks", [text |-> text, limit |-> limit],
          {SearchByResult(tx, "tracks", "album", text, limit)})

\* get_with_digital_formats(limit)
GetWithDigitalFormats(limit) ==
    Query("get_with_digital_formats", "tracks", [limit |-> limit],
          WithFormatsResults(tx, "digital_tracks", limit))

\* get_with_physical_formats(limit)
GetWithPhysicalFormats(limit) ==
    Query("get_with_physical_formats", "tracks", [limit |-> limit],
          WithFormatsResults(tx, "physical_tracks", limit))

\* get_orphaned_tracks(limit)
GetOrphanedTracks(limit) ==
    Query("get_orphaned_tracks", "tracks", [limit |-> limit],
          OrphanedTracksResults(tx, limit))

\* find_by_source_type(source_type)
FindBySourceType(source) ==
    Query("find_by_source_type", "import_batches", [source_type |-> source],
          FindByResults(tx, "source_type", source))

\* find_by_status(status)
FindByStatus(status) ==
    Query("find_by_status", "import_batches", [status |-> status],
          FindByResults(tx, "status", status))

\* get_latest_successful_import(source_type)
GetLatestSuccessfulImport(source) ==
    Query("get_latest_successful_import", "import_batches", [source_type |-> source],
          LatestSuccessfulResults(tx, source))

----------------------------------------------------------------------------
(* RepositoryManager *)

ManagerCommit ==
    LET r == Ret("commit", "none", 0, NoKw)
    IN  /\ InBody
        /\ IF sess = "inactive"
           THEN Raises("PendingRollbackError", r)
           ELSE /\ db' = SessionCommit(db, tx)
                /\ scope' = [scope EXCEPT !.midCommit = TRUE]
                /\ ret' = r
                /\ UNCHANGED <<tx, pc, sess, exc, clock, cfg>>

\* a rollback that revives the session and keeps its flushed work
ManagerRollbackKeepsView ==
    /\ InBody
    /\ sess' = "active"
    /\ ret' = Ret("rollback", "none", 0, NoKw)
    /\ UNCHANGED <<db, tx, pc, exc, scope, clock, cfg>>

ManagerRollback ==
    /\ InBody
    /\ tx' = SessionRollback(db, tx)
    /\ sess' = "active"
    /\ ret' = Ret("rollback", "none", 0, NoKw)
    /\ UNCHANGED <<db, pc, exc, scope, clock, cfg>>

ManagerFlush ==
    LET r == Ret("flush", "none", 0, NoKw)
    IN  /\ InBody
        /\ IF sess = "inactive"
           THEN Raises("PendingRollbackError", r)
           ELSE /\ ret' = r
                /\ UNCHANGED <<db, tx, pc, sess, exc, scope, clock, cfg>>

----------------------------------------------------------------------------
(* Global configuration: initialize_database, get_database_config,
   get_db_session, db_session_scope *)

\* committed content of store k
Content(k) == IF k = cfg.cur THEN db ELSE cfg.stores[k]

\* create_all on store k
Materialized(k) ==
    /\ db' = IF k = cfg.cur THEN MaterializeSchema(k \in cfg.schema, db) ELSE db
    /\ tx' = IF k = cfg.cur THEN MaterializeSchema(k \in cfg.schema, tx) ELSE tx

\* an initialize_database that keeps the handle once it is bound
InitializeDatabaseOnce(override) ==
    LET url == ResolveUrl(override, cfg.env)
        i == Len(cfg.insts) + 1
        k == StoreKey(url, i)
        h == IF cfg.handle = 0 THEN i ELSE cfg.handle
    IN  /\ exc = NoExc
        /\ i <= MaxInstances
        /\ cfg' = [cfg EXCEPT
                     !.insts = Append(@, url),
                     !.handle = h,
                     !.schema = @ \cup {k},
                     !.last = Last("initialize_database", override, NoExc, h, FALSE)]
        /\ UNCHANGED <<db, tx, pc, sess, exc, scope, clock, ret>>

\* initialize_database(database_url): build the instance, bind the handle
\* to it, create the tables, return it
InitializeDatabase(override) ==
    LET url == ResolveUrl(override, cfg.env)
        i == Len(cfg.insts) + 1
        k == StoreKey(url, i)
    IN  /\ exc = NoExc
        /\ i <= MaxInstances
        /\ cfg' = [cfg EXCEPT
                     !.insts = Append(@, url),
                     !.handle = i,
                     !.schema = @ \cup {k},
                     !.stores = [@ EXCEPT ![k] = MaterializeSchema(k \in cfg.schema, @)],
                     !.last = Last("initialize_database", override, NoExc, i, FALSE)]
        /\ Materialized(k)
        /\ UNCHANGED <<pc, sess, exc, scope, clock, ret>>

\* musictool.models.config.db_config = None
ResetHandle ==
    /\ exc = NoExc
    /\ cfg' = [cfg EXCEPT !.handle = 0,
                          !.last = Last("reset", None, NoExc, 0, FALSE)]
    /\ UNCHANGED <<db, tx, pc, sess, exc, scope, clock, ret>>

\* get_database_config()
GetDatabaseConfig ==
    LET res == GetDatabaseConfigResult(cfg)
    IN  /\ exc = NoExc
        /\ cfg' = [cfg EXCEPT
                     !.last = Last("get_database_config", None, res.raised, res.inst, FALSE)]
        /\ UNCHANGED <<db, tx, pc, sess, exc, scope, clock, ret>>

\* get_db_session(): a session of the handle's instance, outside any scope
GetDbSession ==
    LET res == GetDatabaseConfigResult(cfg)
    IN  /\ exc = NoExc
        /\ cfg' = [cfg EXCEPT
                     !.last = Last("get_db_session", None, res.raised, res.inst,
                                   res.raised = NoExc)]
        /\ UNCHANGED <<db, tx, pc, sess, exc, scope, clock, ret>>

\* get_database_config().create_tables()
CreateTables ==
    LET res == GetDatabaseConfigResult(cfg)
        k == StoreKey(cfg.insts[res.inst], res.inst)
    IN  /\ exc = NoExc
        /\ IF res.raised # NoExc
           THEN /\ cfg' = [cfg EXCEPT
                             !.last = Last("create_tables", None, res.raised, 0, FALSE)]
                /\ UNCHANGED <<db, tx>>
           ELSE /\ cfg' = [cfg EXCEPT
                             !.schema = @ \cup {k},
                             !.stores = [@ EXCEPT ![k] =
                                            MaterializeSchema(k \in cfg.schema, @)],
                             !.last = Last("create_tables", None, NoExc, res.inst, FALSE)]
                /\ Materialized(k)
        /\ UNCHANGED <<pc, sess, exc, scope, clock, ret>>

\* with db_session_scope(): get_database_config(), then the session_scope
\* of that instance, whose session is on the instance's store
DbSessionScope ==
    LET res == GetDatabaseConfigResult(cfg)
        k == StoreKey(cfg.insts[res.inst], res.inst)
        kept == [cfg.stores EXCEPT ![cfg.cur] = db]
    IN  /\ pc = "idle"
        /\ IF res.raised # NoExc
           THEN /\ cfg' = [cfg EXCEPT
                             !.last = Last("db_session_scope", None, res.raised, 0, FALSE)]
                /\ UNCHANGED <<db, tx, pc, sess, exc, scope, clock, ret>>
           ELSE /\ cfg' = [cfg EXCEPT
                             !.stores = kept,
                             !.cur = k,
                             !.last = Last("db_session_scope", None, NoExc, res.inst, TRUE)]
                /\ db' = kept[k]
                /\ tx' = db'
                /\ pc' = "body"
                /\ sess' = "active"
                /\ exc' = NoExc
                /\ scope' = NewScope(db')
                /\ ret' = NoRet
                /\ UNCHANGED clock

----------------------------------------------------------------------------

\* the writing calls a scope body makes on the repositories of the tables TS
Writes(TS, maxid, cap) ==
    \/ \E t \in TS : \E kw \in CreateInputs(t) : Create(t, kw, maxid, cap)
    \/ \E t \in TS : \E id \in 1..maxid : \E kw \in UpdateInputs(t) : Update(t, id, kw)
    \/ \E t \in TS : \E id \in 1..maxid : Delete(t, id)

\* failures raised and caught by the body itself
Failures ==
    \/ \E kind \in {"ValueError", "KeyboardInterrupt"} : BodyRaise(kind)
    \/ BodyCatch

\* tables used by the bodies of specification Spec
ScopeTables == {"tracks"}

\* any number of scopes, one after the other, over ScopeTables, their
\* bodies using every call of the repository and of the manager
Next ==
    \/ OpenScope
    \/ ScopeReturn
    \/ ScopeRaise
    \/ ManagerCommit
    \/ ManagerRollback
    \/ ManagerFlush
    \/ \E t \in ScopeTables : \E id \in 1..MaxScopeId : GetById(t, id)
    \/ Writes(ScopeTables, MaxScopeId, MaxScopeId)
    \/ Failures

Spec == Init /\ [][Next]_vars

\* the state right after a scope has been entered on the empty store
InitRepo ==
    /\ db = EmptyStore
    /\ tx = EmptyStore
    /\ pc = "body"
    /\ sess = "active"
    /\ exc = NoExc
    /\ scope = NewScope(EmptyStore)
    /\ clock = 0
    /\ ret = NoRet
    /\ cfg = NoConfig

\* one scope writing to all five tables
NextRepo ==
    \/ ScopeReturn
    \/ ScopeRaise
    \/ ManagerRollback
    \/ Writes(Tables, MaxId, MaxRows)
    \/ Failures

SpecRepo == InitRepo /\ [][NextRepo]_vars

\* the tables related by foreign keys
FamilyTables == {"tracks", "digital_tracks", "releases", "physical_tracks"}

\* one scope creating and deleting rows of the related tables
NextFamily ==
    \/ ScopeReturn
    \/ ScopeRaise
    \/ \E t \in FamilyTables : \E kw \in CreateInputs(t) : Create(t, kw, MaxId, MaxFamily)
    \/ \E t \in FamilyTables : \E id \in 1..MaxId : Delete(t, id)

SpecFamily == InitRepo /\ [][NextFamily]_vars

\* tables carrying the timestamps the clock matters for
TimeTables == {"tracks", "import_batches"}

\* one scope over TimeTables with a running clock
NextTime ==
    \/ ScopeReturn
    \/ ScopeRaise
    \/ Tick
    \/ ManagerRollback
    \/ Writes(TimeTables, MaxId, MaxRows)
    \/ \E t \in TimeTables : \E id \in 1..MaxId : Update(t, id, [created_at |-> 0])
    \/ Failures

SpecTime == InitRepo /\ [][NextTime]_vars

\* limits and offsets handed to the queries
Limits == {None, Some(0), Some(1)}
Offsets == {0, 1}

\* tracks the bodies of the track specification create
TrackInputs ==
    { [artist |-> <<"A", "b">>, title |-> <<"S">>, year |-> Some(2020)],
      [artist |-> <<"B">>, title |-> <<"s", "a">>, album |-> Some(<<"L">>)] }

\* arguments handed to search_tracks
SearchInputs ==
    [artist : {None, Some(<<"a">>), Some(<<"_">>)},
     title : {None, Some(<<"s">>)},
     album : {None, Some(<<"l">>)},
     year : {None, Some(2020), Some(0)},
     limit : {None, Some(1)}]

\* one scope creating, changing, deleting, reading and searching tracks
NextTracks ==
    \/ \E kw \in TrackInputs : Create("tracks", kw, MaxId, MaxId)
    \/ \E id \in 1..MaxId : Update("tracks", id, [year |-> Some(2020)])
    \/ \E id \in 1..MaxId : Delete("tracks", id)
    \/ \E id \in 1..MaxId : GetById("tracks", id)
    \/ \E limit \in Limits : \E offset \in Offsets : GetAll("tracks", limit, offset)
    \/ \E a \in SearchInputs : SearchTracks(a)

SpecTracks == InitRepo /\ [][NextTracks]_vars

\* rows the bodies of the format specification create
FormatInputs(t) ==
    CASE t = "tracks" ->
           { [artist |-> <<"A", "b">>, title |-> <<"S">>, year |-> Some(2020)] }
      [] t = "digital_tracks" -> CreateInputs(t)
      [] t = "releases" ->
           { [title |-> <<"R">>, artist |-> <<"A", "b">>, format_type |-> "vinyl"] }
      [] t = "physical_tracks" ->
           { [track_id |-> k, release_id |-> 1, position |-> Some("A1")] :
               k \in TrackIdRefs }

\* tables read by identifier and counted under the format specification
FormatTables == {"tracks", "digital_tracks"}

\* one scope creating, deleting and querying tracks and their formats
NextFormats ==
    \/ \E t \in FamilyTables : \E kw \in FormatInputs(t) :
           Create(t, kw, MaxId, MaxQueryRows)
    \/ \E t \in FormatTables : \E id \in 1..MaxId : Delete(t, id)
    \/ \E t \in FormatTables : \E id \in 1..MaxId : GetById(t, id)
    \/ \E t \in FormatTables : Count(t)
    \/ \E limit \in {None, Some(1)} : GetWithDigitalFormats(limit)
    \/ \E limit \in {None, Some(1)} : GetWithPhysicalFormats(limit)
    \/ \E limit \in {None, Some(1)} : GetOrphanedTracks(limit)

SpecFormats == InitRepo /\ [][NextFormats]_vars

\* texts handed to the single-column searches
SearchTexts == {<<"a">>, <<"l">>, <<"_">>}

\* tables with single-column searches
SearchTables == {"tracks", "releases"}

\* one scope creating tracks and releases and searching them by one column
NextSearch ==
    \/ \E kw \in TrackInputs : Create("tracks", kw, MaxId, MaxRows)
    \/ \E kw \in FormatInputs("releases") : Create("releases", kw, MaxId, MaxRows)
    \/ \E t \in SearchTables : \E text \in SearchTexts : \E limit \in Limits :
           SearchByArtist(t, text, limit)
    \/ \E t \in SearchTables : \E text \in SearchTexts : \E limit \in Limits :
           SearchByTitle(t, text, limit)
    \/ \E text \in SearchTexts : \E limit \in Limits : SearchByAlbum(text, limit)

SpecSearch == InitRepo /\ [][NextSearch]_vars

\* import batches the bodies of the batch specification create; the last
\* one carries a creation time of the caller's
BatchInputs ==
    { [source_type |-> "traktor_nml", status |-> "success", records_imported |-> 100],
      [source_type |-> "traktor_nml", status |-> "error"],
      [source_type |-> "traktor_nml", status |-> "success", records_imported |-> 150],
      [source_type |-> "traktor_nml", status |-> "success", created_at |-> 0] }

SourceTypes == {"traktor_nml", "non_existent"}
Statuses == {"success", "error", "pending"}

\* one scope creating and querying import batches with a running clock
NextBatches ==
    \/ Tick
    \/ \E kw \in BatchInputs : Create("import_batches", kw, MaxBatches, MaxBatches)
    \/ \E source \in SourceTypes : FindBySourceType(source)
    \/ \E status \in Statuses : FindByStatus(status)
    \/ \E source \in SourceTypes : GetLatestSuccessfulImport(source)

SpecBatches == InitRepo /\ [][NextBatches]_vars

\* keyword arguments of the creates of a unit of work: a Track, a
\* DigitalTrack and a PhysicalTrack referencing its generated identifier, a
\* Release, an ImportBatch, and a Track that fails at flush for want of a title
UnitInputs(t) ==
    CASE t = "tracks" ->
           { [artist |-> <<"A", "b">>, title |-> <<"S">>, year |-> Some(2020)],
             [artist |-> <<"A", "b">>] }
      [] t = "import_batches" -> CreateInputs(t)
      [] t = "releases" -> FormatInputs(t)
      [] OTHER -> {kw \in FormatInputs(t) : kw.track_id = 1}

\* scopes one after the other, each body creating rows of the five tables
\* through one RepositoryManager and reading them back
NextUnit ==
    \/ OpenScope
    \/ ScopeReturn
    \/ ScopeRaise
    \/ \E t \in Tables : \E kw \in UnitInputs(t) :
           Create(t, kw, MaxScopeId, MaxUnitRows)
    \/ \E t \in Tables : GetById(t, 1)
    \/ BodyRaise("ValueError")
    \/ BodyCatch

SpecUnit == Init /\ [][NextUnit]_vars

\* scopes one after the other whose bodies create Tracks and call commit
\* and rollback of the RepositoryManager in between
NextManager ==
    \/ OpenScope
    \/ ScopeReturn
    \/ ScopeRaise
    \/ ManagerCommit
    \/ ManagerRollback
    \/ ManagerFlush
    \/ \E kw \in TrackInputs : Create("tracks", kw, MaxId, MaxRows)
    \/ \E id \in 1..MaxId : GetById("tracks", id)
    \/ BodyRaise("ValueError")
    \/ BodyCatch

SpecManager == Init /\ [][NextManager]_vars

\* the keyword arguments of the one Track the bodies create
ConfigInputs == { [artist |-> <<"A", "b">>, title |-> <<"S">>] }

\* nothing configured yet, DATABASE_URL unset or set
InitConfig ==
    /\ db = EmptyStore
    /\ tx = EmptyStore
    /\ pc = "idle"
    /\ sess = "none"
    /\ exc = NoExc
    /\ scope = NewScope(EmptyStore)
    /\ clock = 0
    /\ ret = NoRet
    /\ \E e \in Environments : cfg = [NoConfig EXCEPT !.env = e, !.schema = {}]

\* the calls on the global configuration, and scopes opened through it
\* whose bodies create a Track
NextConfig ==
    \/ \E o \in Overrides : InitializeDatabase(o)
    \/ ResetHandle
    \/ GetDatabaseConfig
    \/ GetDbSession
    \/ CreateTables
    \/ DbSessionScope
    \/ \E kw \in ConfigInputs : Create("tracks", kw, MaxScopeId, MaxScopeId)
    \/ BodyRaise("ValueError")
    \/ ScopeReturn
    \/ ScopeRaise

SpecConfig == InitConfig /\ [][NextConfig]_vars

\* keyword arguments of the creates whose rows are counted
CountInputs(t) ==
    IF t \in {"releases", "import_batches"} THEN CreateInputs(t) ELSE FormatInputs(t)

\* creates, updates, deletes, count and get_all on the five tables
NextCounts ==
    \/ \E t \in Tables : \E kw \in CountInputs(t) :
           Create(t, kw, MaxId, MaxRows)
    \/ \E id \in 1..MaxId : \E kw \in UpdateInputs("tracks") :
           Update("tracks", id, kw)
    \/ \E t \in Tables : \E id \in 1..MaxId : Delete(t, id)
    \/ \E t \in Tables : Count(t)
    \/ \E t \in Tables : GetAll(t, None, 0)

SpecCounts == InitRepo /\ [][NextCounts]_vars

----------------------------------------------------------------------------
(* Steps the properties speak about *)

\* the scope ends in this step
ScopeEnds == pc = "body" /\ pc' = "idle"

\* the failure that will leave the scope when it ends now: the one in
\* flight, or the one the commit raises on a session whose flush failed
FailureAtExit ==
    IF exc # NoExc THEN exc
    ELSE IF sess = "inactive" THEN "PendingRollbackError"
    ELSE NoExc

ChildrenOfTrack(store, id) ==
    {r \in store["digital_tracks"] \cup store["physical_tracks"] : r.track_id = id}

ChildrenOfRelease(store, id) ==
    {r \in store["physical_tracks"] : r.release_id = id}

----------------------------------------------------------------------------
(* Transaction scope *)

\* C1: when the body of a scope returns normally, the scope calls commit
\* exactly once and closes the session, what the session held at that
\* moment is the committed content afterwards, and a scope opened later
\* starts from that committed content.
C1_CommitOnReturn ==
    [][ /\ (ScopeEnds /\ exc = NoExc) =>
             /\ scope'.bodyEnd = "return"
             /\ scope'.commits = 1
             /\ scope'.closed
             /\ db' = tx
             /\ sess = "active" => (scope'.raised = NoExc /\ scope'.rollbacks = 0)
        /\ (pc = "idle" /\ pc' = "body") => tx' = db
      ]_vars

\* a scope whose body added rows has returned normally and they are committed
C1_Witness ==
    /\ pc = "idle"
    /\ scope.bodyEnd = "return"
    /\ scope.raised = NoExc
    /\ scope.commits = 1
    /\ scope.flushed
    /\ db # scope.pre

\* C2: when a failure is raised inside the scope, by the body or by the
\* commit at scope exit, the uncommitted work is rolled back (by an
\* explicit rollback call when the failure is an Exception), nothing is
\* committed, that same failure reaches the caller and the session is closed.
C2_RollbackOnFailure ==
    [][ (ScopeEnds /\ FailureAtExit # NoExc) =>
            /\ scope'.raised = FailureAtExit
            /\ scope'.closed
            /\ db' = db
            /\ tx' = db
            /\ FailureAtExit \in ExceptionKinds => scope'.rollbacks = 1
            /\ exc # NoExc => scope'.commits = 0
      ]_vars

\* a scope that flushed work has ended with a failure of its body
C2_Witness ==
    /\ pc = "idle"
    /\ scope.bodyEnd = "raise"
    /\ scope.raised \in ExceptionKinds
    /\ scope.rollbacks = 1
    /\ scope.closed
    /\ scope.flushed

\* C3 as claimed: after a scope that flushed an operation and then raised,
\* the committed content is what it was before the scope.
C3_AsClaimed ==
    (pc = "idle" /\ scope.raised # NoExc /\ scope.flushed) => db = scope.pre

\* C3: when a scope ends with a failure, the committed content stays what
\* the last commit of that scope made it, and is what it was before the
\* scope when the body committed nothing.
C3_RollbackToLastCommit ==
    [][ (ScopeEnds /\ FailureAtExit # NoExc) =>
            /\ db' = db
            /\ ~scope.midCommit => db' = scope.pre
      ]_vars

\* a scope that flushed work and committed nothing has ended with a failure
C3_Witness ==
    /\ pc = "idle"
    /\ scope.raised # NoExc
    /\ scope.flushed
    /\ ~scope.midCommit
    /\ db = scope.pre

----------------------------------------------------------------------------
(* Cascades and constraints *)

\* C4: deleting a Track removes, in the same transaction, every
\* DigitalTrack and every PhysicalTrack whose track_id is that track,
\* however many there are, and nothing else: the other tracks, the other
\* children and every Release remain, and nothing is committed by the call.
C4_TrackDeleteCascades ==
    [][ \A id \in 1..MaxId :
          (ret'.found /\ ret'.op = "delete" /\ Delete("tracks", id)) =>
             /\ ChildrenOfTrack(tx', id) = {}
             /\ tx'["tracks"] = tx["tracks"] \ Find(tx["tracks"], id)
             /\ tx'["digital_tracks"] =
                  {r \in tx["digital_tracks"] : r.track_id # id}
             /\ tx'["physical_tracks"] =
                  {r \in tx["physical_tracks"] : r.track_id # id}
             /\ tx'["releases"] = tx["releases"]
             /\ db' = db
      ]_vars

\* a track with two children has been deleted and a release is still there
C4_Witness ==
    /\ ret.op = "delete"
    /\ ret.table = "tracks"
    /\ ret.found
    /\ ret.cascaded >= 2
    /\ tx["releases"] # {}
    /\ tx["tracks"] = {}

\* C5: deleting a Release removes every PhysicalTrack whose release_id is
\* that release and leaves every Track and every DigitalTrack unchanged.
C5_ReleaseDeleteCascades ==
    [][ \A id \in 1..MaxId :
          (ret'.found /\ ret'.op = "delete" /\ Delete("releases", id)) =>
             /\ ChildrenOfRelease(tx', id) = {}
             /\ tx'["physical_tracks"] =
                  {r \in tx["physical_tracks"] : r.release_id # id}
             /\ tx'["tracks"] = tx["tracks"]
             /\ tx'["digital_tracks"] = tx["digital_tracks"]
      ]_vars

\* a release with a physical track has been deleted; the track placed on
\* it and a digital track are still there
C5_Witness ==
    /\ ret.op = "delete"
    /\ ret.table = "releases"
    /\ ret.found
    /\ ret.cascaded >= 1
    /\ tx["tracks"] # {}
    /\ tx["digital_tracks"] # {}

\* C6: in every committed state every DigitalTrack.track_id and every
\* PhysicalTrack.track_id is the id of an existing Track and every
\* PhysicalTrack.release_id is the id of an existing Release.
C6_ReferentialIntegrity == ForeignKeysOk(db)

\* C7: a create of a DigitalTrack or PhysicalTrack succeeds only when the
\* track_id (and the release_id) it was given names an existing row;
\* otherwise it fails with a constraint violation and stores no row.
C7_MissingParentRejected ==
    (ret.op = "create" /\ ret.found
        /\ ret.table \in {"digital_tracks", "physical_tracks"}) =>
       /\ ret.kw.track_id \in Ids(tx["tracks"])
       /\ ret.table = "physical_tracks" => ret.kw.release_id \in Ids(tx["releases"])

\* no two rows with the same present discogs_id
NoSharedDiscogsId(rows) ==
    \A r1, r2 \in rows :
        (r1.discogs_id # None /\ r1.discogs_id = r2.discogs_id) => r1 = r2

\* the discogs_id of kw is present and is held by a release other than id
DiscogsTaken(rows, kw, id) ==
    /\ "discogs_id" \in DOMAIN kw
    /\ kw.discogs_id # None
    /\ \E r \in rows : r.id # id /\ r.discogs_id = kw.discogs_id

\* C8: no two Releases ever have the same present discogs_id, in the
\* session and in the committed store; a create or an update that would
\* give a second Release a discogs_id already in use raises the constraint
\* violation to the caller and stores nothing; a create without discogs_id
\* succeeds whatever releases exist.
C8_DiscogsIdUnique ==
    [][ /\ NoSharedDiscogsId(tx'["releases"])
        /\ NoSharedDiscogsId(db'["releases"])
        /\ \A kw \in CreateInputs("releases") :
             (sess = "active" /\ ret'.op = "create" /\ ret'.table = "releases"
                 /\ Create("releases", kw, MaxId, MaxRows)) =>
                IF DiscogsTaken(tx["releases"], kw, 0)
                THEN /\ exc' = "IntegrityError"
                     /\ ret'.raised = "IntegrityError"
                     /\ tx' = db
                ELSE exc' = NoExc /\ ret'.found
        /\ \A id \in 1..MaxId : \A kw \in UpdateInputs("releases") :
             (sess = "active"
                 /\ Find(tx["releases"], id) # {}
                 /\ DiscogsTaken(tx["releases"], kw, id)
                 /\ Update("releases", id, kw)) =>
                /\ exc' = "IntegrityError"
                /\ ret'.raised = "IntegrityError"
                /\ tx' = db
      ]_vars

\* a create of a release has just been refused for its discogs_id
C8_Witness ==
    /\ ret.op = "create"
    /\ ret.table = "releases"
    /\ ret.raised = "IntegrityError"
    /\ exc = "IntegrityError"

----------------------------------------------------------------------------
(* Generic repository *)

\* C9: after a create that returned, the row has an identifier and
\* get_by_id of that identifier in the same scope, nothing having been
\* committed, returns a row equal to the supplied value on every supplied
\* field.
C9_CreateThenGet ==
    (ret.op = "create" /\ ret.found) =>
        /\ ret.id >= 1
        /\ db = scope.pre
        /\ LET got == GetByIdResult(tx, ret.table, ret.id)
           IN  /\ got # None
               /\ got[1].id = ret.id
               /\ \A k \in DOMAIN ret.kw : got[1][k] = ret.kw[k]

\* a track has just been created with an optional field supplied
C9_Witness ==
    /\ ret.op = "create"
    /\ ret.found
    /\ ret.table = "tracks"
    /\ "year" \in DOMAIN ret.kw
    /\ db = EmptyStore
    /\ GetByIdResult(tx, "tracks", ret.id) # None

\* the store after the setattr loop of update(id, kw), were every supplied
\* name that is a column stored
Merged(t, id, kw) ==
    LET old == GetByIdResult(tx, t, id)[1]
    IN  ReplaceRow(tx, t, old,
                   [c \in Columns(t) |-> IF c \in DOMAIN kw THEN kw[c] ELSE old[c]])

\* C10: update(id, fields) on an existing row, the merged row breaking no
\* constraint, raises nothing, sets every supplied field that is a column,
\* leaves every other column of the row as it was (updated_at of a Track
\* apart), ignores the names that are no field, returns the row, and
\* get_by_id in the same scope returns the new values.
C10_UpdateMerges ==
    [][ \A t \in Tables : \A id \in 1..MaxId : \A kw \in UpdateInputs(t) :
          (Update(t, id, kw) /\ sess = "active" /\ Find(tx[t], id) # {}
              /\ ConstraintsOk(Merged(t, id, kw))) =>
             LET old == GetByIdResult(tx, t, id)[1]
                 got == GetByIdResult(tx', t, id)
             IN  /\ exc' = NoExc
                 /\ ret'.found
                 /\ got # None
                 /\ \A c \in Columns(t) \ {"updated_at"} :
                       got[1][c] = IF c \in DOMAIN kw THEN kw[c] ELSE old[c]
      ]_vars

\* C11: for an identifier that names no row, get_by_id and update return
\* absent and delete returns false (no row found); none of them raises
\* and none of them changes a row of the session or of the committed store.
C11_MissingIdIsNoError ==
    [][ \A id \in 1..MaxId :
          (/\ sess = "active"
           /\ Find(tx["tracks"], id) = {}
           /\ \/ GetById("tracks", id)
              \/ Update("tracks", id, [year |-> Some(2020)])
              \/ Delete("tracks", id)) =>
             /\ exc' = NoExc
             /\ ret'.raised = NoExc
             /\ ~ret'.found
             /\ tx' = tx
             /\ db' = db
      ]_vars

\* update has just been called with an identifier that names no row while
\* the table holds another row
C11_Witness ==
    /\ ret.op = "update"
    /\ ~ret.found
    /\ ret.raised = NoExc
    /\ tx["tracks"] # {}

\* C12: delete(id) returns true exactly when a row with that id existed
\* before the call; after it returned true get_by_id(id) returns absent
\* and count() of that entity type is one less than before.
C12_DeleteReturnsWhetherRemoved ==
    [][ \A t \in FormatTables : \A id \in 1..MaxId :
          (Delete(t, id) /\ sess = "active") =>
             /\ ret'.found <=> Find(tx[t], id) # {}
             /\ ret'.found =>
                  /\ GetByIdResult(tx', t, id) = None
                  /\ CountResult(tx', t) = CountResult(tx, t) - 1
      ]_vars

\* a track has been deleted together with a child, another track remaining
C12_Witness ==
    /\ ret.op = "delete"
    /\ ret.table = "tracks"
    /\ ret.found
    /\ ret.cascaded >= 1
    /\ tx["tracks"] # {}

----------------------------------------------------------------------------
(* Queries *)

\* the smaller and the larger of two numbers
Smaller(a, b) == IF a <= b THEN a ELSE b
Larger(a, b) == IF a >= b THEN a ELSE b

\* C13: get_all(limit, offset) returns the rows of the full scan (get_all
\* without arguments) at positions offset+1 .. offset+L for a supplied
\* limit L >= 0, so at most L rows, and every row from position offset+1
\* on when limit is absent.
C13_GetAllWindow ==
    ret.op = "get_all" =>
        LET scan == GetAllResult(tx, ret.table, None, 0)
            rest == Larger(Len(scan) - ret.kw.offset, 0)
            n == IF ret.kw.limit = None THEN rest ELSE Smaller(ret.kw.limit[1], rest)
        IN  ret.rows = [i \in 1..n |-> scan[ret.kw.offset + i]]

\* needle occurs in hay as a run of consecutive characters, letter case
\* apart
Contains(hay, needle) ==
    \E i \in 0..(Len(hay) - Len(needle)) :
        \A k \in 1..Len(needle) : Lower(hay[i + k]) = Lower(needle[k])

\* track r satisfies every criterion of a that is supplied (not null)
Satisfies(r, a) ==
    /\ a.artist # None => Contains(r.artist, a.artist[1])
    /\ a.title # None => Contains(r.title, a.title[1])
    /\ a.album # None => (r.album # None /\ Contains(r.album[1], a.album[1]))
    /\ a.year # None => r.year = a.year

\* C14: search_tracks(artist, title, album, year) without limit returns
\* exactly the tracks that satisfy every supplied (not null) criterion,
\* text by case-insensitive substring and year by equality, each track
\* once; with no criterion supplied that is every track.
C14_SearchConjunction ==
    (ret.op = "search_tracks" /\ ret.kw.limit = None) =>
        /\ {ret.rows[i] : i \in DOMAIN ret.rows} =
              {r.id : r \in {x \in tx["tracks"] : Satisfies(x, ret.kw)}}
        /\ Len(ret.rows) = Cardinality({ret.rows[i] : i \in DOMAIN ret.rows})

\* the elements of a result
Range(q) == {q[i] : i \in DOMAIN q}

\* a result names no row twice
NoDuplicates(q) == Len(q) = Cardinality(Range(q))

\* identifiers of the tracks of a store without any child
Childless(store) == {r.id : r \in {x \in store["tracks"] : ChildrenOfTrack(store, x.id) = {}}}

\* C15: get_orphaned_tracks() without limit returns exactly the tracks
\* with no DigitalTrack and no PhysicalTrack child, each once; creating one
\* child of either kind for a track takes that track, and no other, out of
\* what the query returns.
C15_OrphanedTracks ==
    [][ /\ (ret'.op = "get_orphaned_tracks" /\ ret'.kw.limit = None) =>
              (Range(ret'.rows) = Childless(tx') /\ NoDuplicates(ret'.rows))
        /\ \A t \in {"digital_tracks", "physical_tracks"} : \A kw \in FormatInputs(t) :
              (/\ Create(t, kw, MaxId, MaxQueryRows)
               /\ ret'.found
               /\ kw.track_id \in Ids(tx["tracks"])) =>
                 \A before \in OrphanedTracksResults(tx, None) :
                 \A after \in OrphanedTracksResults(tx', None) :
                     Range(after) = Range(before) \ {kw.track_id}
      ]_vars

\* the query has just returned a track while another track, having a
\* child, is left out
C15_Witness ==
    /\ ret.op = "get_orphaned_tracks"
    /\ ret.kw.limit = None
    /\ ret.rows # <<>>
    /\ \E r \in tx["tracks"] : ChildrenOfTrack(tx, r.id) # {}

\* how many times x is in a result
Occurrences(q, x) == Cardinality({i \in DOMAIN q : q[i] = x})

\* the children of one kind of a track
ChildrenOfKind(store, child, id) == {c \in store[child] : c.track_id = id}

\* a get_with_*_formats call without limit has just returned; the table of
\* the children it joins
WithFormatsReturned ==
    /\ ret.op \in {"get_with_digital_formats", "get_with_physical_formats"}
    /\ ret.kw.limit = None

JoinedTable ==
    IF ret.op = "get_with_digital_formats" THEN "digital_tracks" ELSE "physical_tracks"

\* C16 as claimed: get_with_digital_formats() / get_with_physical_formats()
\* return only tracks having a child of the respective kind, and a track
\* with N children of that kind is N times in the result.
C16_AsClaimed ==
    WithFormatsReturned =>
        /\ Range(ret.rows) \subseteq Ids(tx["tracks"])
        /\ \A r \in tx["tracks"] :
              Occurrences(ret.rows, r.id) =
                  Cardinality(ChildrenOfKind(tx, JoinedTable, r.id))

\* C16: get_with_digital_formats() / get_with_physical_formats() without
\* limit return exactly the tracks having at least one child of the
\* respective kind, and each of them once, however many children of that
\* kind it has.
C16_EachTrackOnce ==
    WithFormatsReturned =>
        /\ Range(ret.rows) =
              {r.id : r \in {x \in tx["tracks"] :
                                ChildrenOfKind(tx, JoinedTable, x.id) # {}}}
        /\ NoDuplicates(ret.rows)

\* the query has just returned a track that has two digital formats
C16_Witness ==
    /\ ret.op = "get_with_digital_formats"
    /\ ret.kw.limit = None
    /\ \E id \in Range(ret.rows) :
          Cardinality(ChildrenOfKind(tx, "digital_tracks", id)) >= 2

\* the import batch with identifier id
Batch(id) == CHOOSE b \in tx["import_batches"] : b.id = id

\* the successful batches of a source type
Successful(source) ==
    {b \in tx["import_batches"] : b.source_type = source /\ b.status = "success"}

\* C17: get_latest_successful_import(source_type) returns absent exactly
\* when no batch has that source_type and status success; otherwise it
\* returns one of those batches, and none of them has a later created_at
\* (so of success/100, error, success/150 created at increasing times it
\* returns success/150).
C17_LatestSuccessfulImport ==
    ret.op = "get_latest_successful_import" =>
        LET cand == Successful(ret.kw.source_type)
        IN  /\ ret.rows = <<>> <=> cand = {}
            /\ ret.rows # <<>> =>
                  /\ Len(ret.rows) = 1
                  /\ ret.rows[1] \in Ids(cand)
                  /\ \A c \in cand : c.created_at <= Batch(ret.rows[1]).created_at

\* the query has just returned success/150, created after success/100 and
\* an error batch
C17_Witness ==
    /\ ret.op = "get_latest_successful_import"
    /\ ret.rows # <<>>
    /\ Batch(ret.rows[1]).records_imported = 150
    /\ \E a, e \in tx["import_batches"] :
          /\ a.status = "success" /\ a.records_imported = 100
          /\ e.status = "error"
          /\ a.id < e.id /\ e.id < ret.rows[1]
          /\ a.created_at < Batch(ret.rows[1]).created_at

\* C18: find_by_source_type(s) and find_by_status(s) return exactly the
\* batches whose source_type (status) equals s, each once, newest first:
\* of any two batches of the result the one with the later created_at
\* comes first.
C18_FindByNewestFirst ==
    ret.op \in {"find_by_source_type", "find_by_status"} =>
        LET c == IF ret.op = "find_by_source_type" THEN "source_type" ELSE "status"
        IN  /\ Range(ret.rows) = {b.id : b \in {x \in tx["import_batches"] : x[c] = ret.kw[c]}}
            /\ NoDuplicates(ret.rows)
            /\ \A i, j \in DOMAIN ret.rows :
                  Batch(ret.rows[i]).created_at > Batch(ret.rows[j]).created_at => i < j

\* find_by_status has just returned two batches created at different times
C18_Witness ==
    /\ ret.op = "find_by_status"
    /\ Len(ret.rows) >= 2
    /\ Batch(ret.rows[1]).created_at > Batch(ret.rows[2]).created_at

----------------------------------------------------------------------------
(* Identifiers and timestamps *)

\* C19: Track identifiers are unique, stable and never reused: an update
\* leaves the identifiers of the tracks as they are, and a create never
\* gives a new Track an identifier that a Track has now, that a committed
\* Track has, or that the Track deleted by the call before had.
C19_TrackIdsNeverReused ==
    [][ /\ \A r1, r2 \in tx'["tracks"] : r1.id = r2.id => r1 = r2
        /\ ret'.op = "update" => Ids(tx'["tracks"]) = Ids(tx["tracks"])
        /\ \A kw \in TrackInputs :
              (Create("tracks", kw, MaxId, MaxId) /\ ret'.found) =>
                 /\ ret'.id \notin Ids(tx["tracks"]) \cup Ids(db["tracks"])
                 /\ ~(/\ ret.op = "delete"
                      /\ ret.table = "tracks"
                      /\ ret.found
                      /\ ret.id = ret'.id)
      ]_vars

\* C20: created_at of a row is the same after every update of that row,
\* whatever names the update is given.
C20_CreatedAtNeverChanges ==
    [][ \A t \in TimeTables : \A id \in 1..MaxId :
          (ret'.op = "update" /\ ret'.found /\ ret'.table = t /\ ret'.id = id) =>
             \A r \in Find(tx[t], id) : \A r2 \in Find(tx'[t], id) :
                 r2.created_at = r.created_at
      ]_vars

\* keyword arguments the bodies of the time specification hand to update
\* of a track
TimeUpdateInputs == UpdateInputs("tracks") \cup {[created_at |-> 0]}

\* C21: every TrackRepository.update call that finds the track and is given
\* at least one recognized field leaves updated_at strictly later than it
\* was before the call (the clock having advanced since that earlier
\* value was written).
C21_UpdatedAtAdvances ==
    [][ \A id \in 1..MaxId : \A kw \in TimeUpdateInputs :
          (/\ Update("tracks", id, kw)
           /\ ret'.found
           /\ DOMAIN kw \cap Columns("tracks") # {}) =>
             \A r \in Find(tx["tracks"], id) : \A r2 \in Find(tx'["tracks"], id) :
                 clock > r.updated_at => r2.updated_at > r.updated_at
      ]_vars

\* the column a single-column search looks at
SearchedColumn ==
    CASE ret.op = "search_by_artist" -> "artist"
      [] ret.op = "search_by_title" -> "title"
      [] ret.op = "search_by_album" -> "album"

\* identifiers of the rows whose searched column is present and contains
\* the text
Containing(t, c, text) ==
    {r.id : r \in {x \in tx[t] :
                      /\ OptionalText(t, x, c) # None
                      /\ Contains(OptionalText(t, x, c)[1], text)}}

\* C28: search_by_artist / search_by_title / search_by_album of tracks and
\* search_by_title / search_by_artist of releases return exactly the rows
\* whose field contains the text as a case-insensitive substring, a row
\* with a null field never; with a limit L at most L rows, each a row of
\* the unlimited result.
C28_SingleColumnSearch ==
    ret.op \in {"search_by_artist", "search_by_title", "search_by_album"} =>
        LET full == Containing(ret.table, SearchedColumn, ret.kw.text)
        IN  /\ NoDuplicates(ret.rows)
            /\ Range(ret.rows) \subseteq full
            /\ ret.kw.limit = None => Range(ret.rows) = full
            /\ ret.kw.limit # None => Len(ret.rows) <= ret.kw.limit[1]

----------------------------------------------------------------------------
(* Counts *)

\* count() of table u on a store
Counted(store, u) == CountResult(store, u)

\* rows of table u that the delete of row id of table t takes away, the
\* row itself or its children
TakenAway(store, t, id, u) ==
    CASE u = t -> Find(store[u], id)
      [] t = "tracks" /\ u \in {"digital_tracks", "physical_tracks"} ->
           ChildrenOfKind(store, u, id)
      [] t = "releases" /\ u = "physical_tracks" -> ChildrenOfRelease(store, id)
      [] OTHER -> {}

\* the step is a call of op that found or made its row
Called(op) == ret' # ret /\ ret'.op = op /\ ret'.found

\* C30: on a usable session count() of an entity type equals the number
\* of rows get_all() returns without limit at offset 0, and it follows the
\* calls from the empty store on: a successful create adds one to the
\* count of its type and leaves the others, an update leaves every count,
\* a delete takes from each count the rows it removed, directly or by
\* cascade.
C30_CountsBalance ==
    [][ /\ \A u \in Tables :
              Counted(tx', u) = Len(GetAllResult(tx', u, None, 0))
        /\ Called("create") =>
              \A u \in Tables :
                  Counted(tx', u) =
                      Counted(tx, u) + (IF u = ret'.table THEN 1 ELSE 0)
        /\ Called("update") =>
              \A u \in Tables : Counted(tx', u) = Counted(tx, u)
        /\ Called("delete") =>
              \A u \in Tables :
                  Counted(tx', u) =
                      Counted(tx, u)
                        - Cardinality(TakenAway(tx, ret'.table, ret'.id, u))
      ]_vars

\* a track has been deleted with a child, after two creates
C30_Witness ==
    /\ ret.op = "delete"
    /\ ret.table = "tracks"
    /\ ret.found
    /\ ret.cascaded >= 1
    /\ \A u \in Tables : Counted(tx, u) = 0

----------------------------------------------------------------------------
(* Units of work through one RepositoryManager *)

\* C26: the creates of one scope on the five tables are one atomic unit.
\* While the session is usable every row the body created stays in its
\* view; when the scope ends after a normal return of the body on a usable
\* session, the committed content is that view, with all the rows created;
\* when it ends with a failure, of the body or of the commit, the committed
\* content is what it was before the scope, with none of them; a scope
\* opened later starts from that committed content.
C26_AtomicUnit ==
    [][ /\ (pc = "body" /\ pc' = "body" /\ sess' = "active") =>
              \A t \in Tables : tx[t] \subseteq tx'[t]
        /\ Called("create") => Find(tx'[ret'.table], ret'.id) # {}
        /\ (ScopeEnds /\ ~scope.midCommit) =>
              IF FailureAtExit = NoExc
              THEN \A t \in Tables : db'[t] = tx[t]
              ELSE \A t \in Tables : db'[t] = scope.pre[t]
        /\ (pc = "idle" /\ pc' = "body") => tx' = db
      ]_vars

\* a scope on the empty store has returned after creating a Track, a
\* DigitalTrack and a PhysicalTrack referencing it, a Release and an
\* ImportBatch, and all five rows are committed
C26_Witness ==
    /\ pc = "idle"
    /\ scope.bodyEnd = "return"
    /\ scope.raised = NoExc
    /\ scope.pre = EmptyStore
    /\ \A t \in Tables : Cardinality(db[t]) = 1
    /\ \A r \in db["digital_tracks"] \cup db["physical_tracks"] :
           Find(db["tracks"], r.track_id) # {}

C29_MidScopeCommitSurvives ==
    [][ /\ (pc = "body" /\ pc' = "body" /\ db' # db) =>
              (ManagerCommit /\ db' = tx)
        /\ (ScopeEnds /\ FailureAtExit # NoExc /\ scope.midCommit) =>
              /\ db' = db
              /\ tx' = db
        /\ (pc = "idle" /\ pc' = "body" /\ scope.midCommit) =>
              /\ tx' = db
              /\ scope'.pre = db
      ]_vars

\* a scope that committed rows in its body has ended with a failure and
\* the rows are in the committed content
C29_Witness ==
    /\ pc = "idle"
    /\ scope.bodyEnd = "raise"
    /\ scope.raised # NoExc
    /\ scope.midCommit
    /\ db # scope.pre
    /\ db["tracks"] # {}

----------------------------------------------------------------------------
(* Global configuration *)

\* the calls that read the handle
HandleReaders == {"get_database_config", "get_db_session", "db_session_scope"}

\* the step is a call of op on the configuration
ConfigCall(op) == cfg' # cfg /\ cfg'.last.op = op

\* committed content of store k after the step
ContentAfter(k) == IF k = cfg'.cur THEN db' ELSE cfg'.stores[k]

\* C22: get_database_config, get_db_session and db_session_scope raise
\* RuntimeError whenever the handle is unset, and then open no session and
\* no scope; the handle is unset before the first initialize_database and
\* after a reset, and only then; with the handle set they do not raise.
C22_NotInitialized ==
    [][ /\ \A op \in HandleReaders :
              ConfigCall(op) =>
                 IF cfg.handle = 0
                 THEN /\ cfg'.last.raised = "RuntimeError"
                      /\ ~cfg'.last.opened
                      /\ pc' = pc
                      /\ sess' = sess
                      /\ tx' = tx
                      /\ db' = db
                 ELSE cfg'.last.raised = NoExc
        /\ cfg'.insts = <<>> => cfg'.handle = 0
        /\ ConfigCall("reset") => cfg'.handle = 0
        /\ ConfigCall("initialize_database") => cfg'.handle # 0
        /\ (cfg.handle # 0 /\ cfg'.handle = 0) => cfg'.last.op = "reset"
        /\ (cfg.handle = 0 /\ cfg'.handle # 0) => cfg'.last.op = "initialize_database"
      ]_vars

\* db_session_scope has raised RuntimeError after the handle was reset,
\* and no scope is open
C22_Witness ==
    /\ cfg.last.op = "db_session_scope"
    /\ cfg.last.raised = "RuntimeError"
    /\ cfg.insts # <<>>
    /\ cfg.handle = 0
    /\ pc = "idle"
    /\ sess = "none"

\* C23: every initialize_database binds the handle to the instance it
\* builds and returns; get_database_config on a set handle returns the
\* instance of the most recent initialize_database; a scope opened through
\* the handle works on the store of that instance, starting from its
\* committed content.
C23_Reinitializable ==
    [][ /\ ConfigCall("initialize_database") =>
              /\ Len(cfg'.insts) = Len(cfg.insts) + 1
              /\ cfg'.last.inst = Len(cfg'.insts)
              /\ cfg'.handle = cfg'.last.inst
        /\ (ConfigCall("get_database_config") /\ cfg.handle # 0) =>
              /\ cfg'.last.raised = NoExc
              /\ cfg'.last.inst = Len(cfg.insts)
        /\ (pc = "idle" /\ pc' = "body") =>
              LET i == Len(cfg.insts)
                  k == StoreKey(cfg.insts[i], i)
              IN  /\ cfg'.last.inst = i
                  /\ cfg'.cur = k
                  /\ tx' = Content(k)
                  /\ db' = Content(k)
      ]_vars

\* a scope is open through the handle of a second instance on another
\* store: it sees none of the rows committed to the store of the first
C23_Witness ==
    /\ pc = "body"
    /\ Len(cfg.insts) = 2
    /\ cfg.handle = 2
    /\ cfg.cur = StoreKey(cfg.insts[2], 2)
    /\ cfg.cur # StoreKey(cfg.insts[1], 1)
    /\ cfg.stores[StoreKey(cfg.insts[1], 1)]["tracks"] # {}
    /\ tx["tracks"] = {}

\* C24: the connection string of a DatabaseConfig is the override when one
\* is given, else the value of DATABASE_URL when it is set, else
\* sqlite:///musictool.db.
C24_UrlResolution ==
    cfg.last.op = "initialize_database" =>
        cfg.insts[cfg.last.inst] =
            IF cfg.last.arg # None THEN cfg.last.arg[1]
            ELSE IF cfg.env # None THEN cfg.env[1]
            ELSE DefaultUrl

\* C25: create_tables, and initialize_database on a store whose tables
\* exist, raise nothing and leave every table and every stored row as
\* they were, in that store and in every other, and the view of an open
\* session too.
C25_SchemaIdempotent ==
    [][ (ConfigCall("create_tables") \/ ConfigCall("initialize_database")) =>
            /\ cfg.handle # 0 => cfg'.last.raised = NoExc
            /\ cfg'.last.op = "initialize_database" => cfg'.last.raised = NoExc
            /\ cfg.schema \subseteq cfg'.schema
            /\ \A k \in cfg.schema : ContentAfter(k) = Content(k)
            /\ cfg.cur \in cfg.schema => tx' = tx
      ]_vars

\* create_tables has been called on a store that holds a committed row,
\* and the row is there
C25_Witness ==
    /\ cfg.last.op = "create_tables"
    /\ cfg.last.raised = NoExc
    /\ cfg.cur = StoreKey(cfg.insts[cfg.last.inst], cfg.last.inst)
    /\ pc = "idle"
    /\ db["tracks"] # {}

====
